---- MODULE Spec2Model ----
(***************************************************************************)
(* FetchQueue and QueuedResponse of src/src/Fetch.ts (the priority        *)
(* version, lines 1-230) as a state machine, and after them LinkedList,    *)
(* LinkedListDouble, Stack, Cache and MemoryCache, each used on its own.   *)
(*                                                                         *)
(* JavaScript runs one synchronous block at a time.  An async function     *)
(* runs synchronously up to its first await; every await suspends it,      *)
(* also when the awaited promise is already resolved, and its continuation *)
(* runs later: continuations of resolved promises (microtasks) in the      *)
(* order they were suspended and before any timer, timers in the order of  *)
(* their deadlines.  Each action below is one such synchronous block.      *)
(***************************************************************************)
EXTENDS Integers, Sequences, FiniteSets, TLC

\* ------------------------------------------------------------------ bounds
NJobs == 4          \* calls made on the queue
NCalls == 3         \* of them, the calls made where fetch and the body methods are used
MaxCap == 2         \* maxRequests is at most MaxCap
MaxPace == 2        \* requestTimeoutMS is 0 or MaxPace
MaxTick == 3        \* the clock advances at most MaxTick milliseconds
NVals == 2          \* the values put into a list or a stack
MaxLen == 5         \* a list or a stack holds at most MaxLen values

\* ------------------------------------------------------- program constants
DefaultPriority == 5    \* waitTurn(priority = 5)
FetchPriority == 5      \* fetch: this.waitTurn(5)
BodyPriority == 4       \* arrayBuffer, blob, bytes, text: waitTurn(4)
ParsePriority == 3      \* formData, json: waitTurn(3)

Jobs == 1..NJobs
Calls == 1..NCalls
\* Priorities a direct caller of waitTurn passes: the most urgent one and the default.
UserPriorities == {0, DefaultPriority}
Methods == {"arrayBuffer", "blob", "bytes", "formData", "json", "text"}
Errors == {"NetworkError", "BodyError"}
\* Date.now() when the queue is constructed: far beyond any requestTimeoutMS, so
\* that now - lastReleaseTime (initially 0) is at least requestTimeoutMS.
Epoch == MaxPace

VARIABLES
    maxRequests,        \* constructor argument (line 12)
    requestTimeoutMS,   \* constructor argument (line 12)
    bufferBody,         \* constructor argument (line 12)
    active,             \* this.active (line 2)
    queue,              \* this.queue (line 3): priority -> list of waiting tryAcquire closures
    lastReleaseTime,    \* this.lastReleaseTime (line 4)
    now,                \* Date.now()
    delayed,            \* tryAcquire calls suspended in `await this.waitForDelay()` (line 38)
    pc,                 \* where each call is
    op,                 \* what each call is: "waitTurn", "fetch" or a body method
    prio,               \* the priority each call passes to waitTurn
    resp,               \* body reads: the fetch call whose QueuedResponse is read
    consumed,           \* per fetch call: the raw Response's body has been read
    io,                 \* what the platform operation of the call produced
    outcome,            \* what the call returned or threw to its caller
    admitOrder,         \* history: the calls in the order they were admitted
    lastAdmitAt,        \* history: the time of the most recent admission (-1: none yet)
    released,           \* history: how often each call's release function ran
    wasQueued,          \* history: calls whose own request put them in the pending map
    handoff,            \* history: the waiter the release of this step handed off to (0: none)
    burst,              \* history: every request so far was made before any admission
    outranked,          \* history: pairs <<a, b>> that were pending together at a release,
                        \*          a at a numerically lower priority than b
    list,               \* a LinkedList (also the list of a Stack): _head, _length, the nodes
    dlist,              \* a LinkedListDouble: _start, _end, _length, the nodes
    file,               \* the cache file of a Cache
    store,              \* MemoryCache._store
    call                \* the last call made on one of these objects, and what it returned

vars == <<maxRequests, requestTimeoutMS, bufferBody, active, queue, lastReleaseTime,
          now, delayed, pc, op, prio, resp, consumed, io, outcome, admitOrder,
          lastAdmitAt, released, wasQueued, handoff, burst, outranked,
          list, dlist, file, store, call>>

\* The other objects of the library, which no operation of the queue touches.
library == <<list, dlist, file, store, call>>

config == <<maxRequests, requestTimeoutMS, bufferBody>>

\* --------------------------------------------------------- pure functions

\* line 37: the admission test of tryAcquire
CanAcquire(a, m) == a < m

\* waitForDelay (lines 14-22): how long it sleeps; 0 when it returns without a timer
WaitForDelay(T, t, last) ==
    IF T <= 0 THEN 0
    ELSE IF t - last < T THEN T - (t - last) ELSE 0

\* lines 42-46: append a waiter to its priority bucket, creating the bucket if absent
Push(q, p, r) ==
    IF p \in DOMAIN q
    THEN [q EXCEPT ![p] = Append(@, r)]
    ELSE [k \in (DOMAIN q) \cup {p} |-> IF k = p THEN <<r>> ELSE q[k]]

\* A next() that serves the numerically highest bucket (Math.max for Math.min).
MaxKey(q) == CHOOSE k \in DOMAIN q : \A j \in DOMAIN q : k >= j

\* line 55: Math.min over the keys of the pending map (only used when there is a key)
MinKey(q) == CHOOSE k \in DOMAIN q : \A j \in DOMAIN q : k <= j

\* line 58: the waiter q.shift() returns
Shifted(q) == Head(q[MinKey(q)])

\* A shift that leaves the emptied bucket in the pending map.
ShiftKeepsBucket(q) == [q EXCEPT ![MinKey(q)] = Tail(@)]

\* lines 58-61: the pending map after q.shift() and the delete of an emptied bucket
Shift(q) ==
    LET k == MinKey(q) IN
    IF Len(q[k]) = 1
    THEN [j \in (DOMAIN q) \ {k} |-> q[j]]
    ELSE [q EXCEPT ![k] = Tail(@)]

\* lines 36-48: tryAcquire of call r up to its first suspension, run in a state with
\* active count a, pending map q and suspended calls d, at time t: either it passes
\* the test and suspends in `await this.waitForDelay()` (wake 0: no timer, the
\* continuation is a microtask), or it puts itself in the pending map.
TryAcquire(r, p, a, q, d, t, last) ==
    IF CanAcquire(a, maxRequests)
    THEN LET s == WaitForDelay(requestTimeoutMS, t, last) IN
         [queue |-> q,
          delayed |-> Append(d, [job |-> r, wake |-> IF s = 0 THEN 0 ELSE t + s]),
          pc |-> "delay"]
    ELSE [queue |-> Push(q, p, r), delayed |-> d, pc |-> "queued"]

\* The suspended tryAcquire that resumes next: microtasks (wake 0) first, then the
\* timer with the earliest deadline; ties in the order of suspension.
Due(d, t) == {i \in 1..Len(d) : d[i].wake <= t}
NextDue(d, t) ==
    CHOOSE i \in Due(d, t) :
        \A j \in Due(d, t) : d[i].wake < d[j].wake \/ (d[i].wake = d[j].wake /\ i <= j)
Remove(d, i) == SubSeq(d, 1, i - 1) \o SubSeq(d, i + 1, Len(d))

\* An unlock that does not give the slot back.
DecrementLost(a) == a

\* lines 30-34: this.active-- of unlock
Decrement(a) == a - 1

Pending(q) == UNION {{q[k][i] : i \in 1..Len(q[k])} : k \in DOMAIN q}

\* A next() that wakes every waiter of the lowest bucket instead of its first.
RunNextBatch(a, q, d, t) ==
    IF DOMAIN q = {}
    THEN [queue |-> q, delayed |-> d, job |-> 0, pc |-> "none"]
    ELSE LET k == CHOOSE x \in DOMAIN q : \A y \in DOMAIN q : x <= y
             woken == [i \in 1..Len(q[k]) |-> [job |-> q[k][i], wake |-> 0]]
         IN [queue |-> [j \in (DOMAIN q) \ {k} |-> q[j]], delayed |-> d \o woken,
             job |-> q[k][1], pc |-> "delay"]

\* A next() that calls nobody.
RunNextNobody(a, q, d, t) == [queue |-> q, delayed |-> d, job |-> 0, pc |-> "none"]

\* next() (lines 54-64), called by unlock with active count a at time t, which is
\* also the lastReleaseTime unlock has just set: job is the waiter it calls (0: none)
RunNext(a, q, d, t) ==
    IF DOMAIN q = {}
    THEN [queue |-> q, delayed |-> d, job |-> 0, pc |-> "none"]
    ELSE LET j == Shifted(q)
             x == TryAcquire(j, prio[j], a, Shift(q), d, t, t)
         IN [queue |-> x.queue, delayed |-> x.delayed, job |-> j, pc |-> x.pc]

\* A fetch that calls free() after the try block instead of in a finally block.
FetchFinallyOnSuccess(e) == e = "ok"

\* fetch (lines 80-89): the finally block runs whether the awaited operation
\* produced e = "ok" or threw
FetchFinally(e) == TRUE

\* A body method that calls free() after the try block instead of in a finally block.
ReadFinallyOnSuccess(e) == e = "ok"

\* the body methods (lines 146-150, 162-166, 178-182, 191-195, 208-212, 224-228):
\* the finally block runs whether the read produced e = "ok" or threw
ReadFinally(e) == TRUE

\* A fetch that calls free() as soon as the headers are there, before res.blob().
HoldsSlotNever(reads) == FALSE

\* lines 82-87: after the network call settled, the try block of fetch is still
\* running exactly when it awaits res.blob(), and free() waits for it
HoldsSlot(reads) == reads

\* lines 141-229: the body methods that answer from bodyBlob when it is there
UsesBuffer(m) == m # "formData"

\* Body methods that ask for their turn behind the fetches.
MethodPriorityBehind(m) == FetchPriority + 1

\* the priority each body method passes to waitTurn (lines 145, 161, 177, 190, 207, 223)
MethodPriority(m) == IF m \in {"formData", "json"} THEN ParsePriority ELSE BodyPriority

\* ------------------------------------------------------------------ state

\* No list, cache file or memory cache is in use.
LibraryIdle ==
    /\ list = <<>>
    /\ dlist = <<>>
    /\ file = <<>>
    /\ store = <<>>
    /\ call = <<>>

\* line 12: the constructor takes every maxRequests it is given
ValidConfig(m) == TRUE

\* The state after the constructor (lines 2-4, 12), whatever the configuration.
Constructed ==
    /\ active = 0
    /\ queue = <<>>
    /\ lastReleaseTime = 0
    /\ now = Epoch
    /\ delayed = <<>>
    /\ pc = [r \in Jobs |-> "idle"]
    /\ op = [r \in Jobs |-> "none"]
    /\ prio = [r \in Jobs |-> DefaultPriority]
    /\ resp = [r \in Jobs |-> 0]
    /\ consumed = [r \in Jobs |-> FALSE]
    /\ io = [r \in Jobs |-> "none"]
    /\ outcome = [r \in Jobs |-> "none"]
    /\ admitOrder = <<>>
    /\ lastAdmitAt = -1
    /\ released = [r \in Jobs |-> 0]
    /\ wasQueued = {}
    /\ handoff = 0
    /\ burst = TRUE
    /\ outranked = {}

\* Calls are numbered in the order they are made.
Fresh(r) == pc[r] = "idle" /\ \A j \in Jobs : j < r => pc[j] # "idle"

\* waitTurn(p) of call r (lines 28-51): the Promise executor runs tryAcquire at once
Request(r, p) ==
    LET x == TryAcquire(r, p, active, queue, delayed, now, lastReleaseTime) IN
    /\ queue' = x.queue
    /\ delayed' = x.delayed
    /\ pc' = [pc EXCEPT ![r] = x.pc]
    /\ prio' = [prio EXCEPT ![r] = p]
    /\ wasQueued' = IF x.pc = "queued" THEN wasQueued \cup {r} ELSE wasQueued
    /\ burst' = (burst /\ admitOrder = <<>>)
    /\ handoff' = 0
    /\ UNCHANGED <<active, lastReleaseTime, now, admitOrder, lastAdmitAt, released,
                   outranked>>

\* unlock (lines 30-34), the release function of call r, which goes on at st
Free(r, st) ==
    LET a == Decrement(active)
        n == RunNext(a, queue, delayed, now)
    IN /\ active' = a
       /\ lastReleaseTime' = now
       /\ queue' = n.queue
       /\ delayed' = n.delayed
       /\ handoff' = n.job
       /\ pc' = [j \in Jobs |-> IF j = r THEN st ELSE IF j = n.job THEN n.pc ELSE pc[j]]
       /\ released' = [released EXCEPT ![r] = @ + 1]
       /\ outranked' = outranked \cup
              {x \in Pending(queue) \X Pending(queue) : prio[x[1]] < prio[x[2]]}
       /\ UNCHANGED <<now, admitOrder, lastAdmitAt, prio, wasQueued, burst>>

\* call r goes on at st without running a release function
Keep(r, st) ==
    /\ pc' = [pc EXCEPT ![r] = st]
    /\ handoff' = 0
    /\ UNCHANGED <<active, lastReleaseTime, queue, delayed, released, now,
                   admitOrder, lastAdmitAt, prio, wasQueued, burst, outranked>>

\* ---------------------------------------------------------------- actions

\* A caller calls waitTurn(p) itself.
WaitTurn(r, p) ==
    /\ Fresh(r)
    /\ op' = [op EXCEPT ![r] = "waitTurn"]
    /\ Request(r, p)
    /\ UNCHANGED <<config, library, resp, consumed, io, outcome>>

\* lines 39-40: the suspended tryAcquire that is due resumes: this.active++; res(unlock)
Resume ==
    /\ Due(delayed, now) # {}
    /\ LET i == NextDue(delayed, now)
           r == delayed[i].job
       IN /\ active' = active + 1
          /\ delayed' = Remove(delayed, i)
          /\ pc' = [pc EXCEPT ![r] = "held"]
          /\ admitOrder' = Append(admitOrder, r)
          /\ lastAdmitAt' = now
    /\ handoff' = 0
    /\ UNCHANGED <<config, library, queue, lastReleaseTime, now, op, prio, resp, consumed, io,
                   outcome, released, wasQueued, burst, outranked>>

\* The caller of waitTurn calls the release function it was given (once).
Release(r) ==
    /\ op[r] = "waitTurn"
    /\ pc[r] = "held"
    /\ Free(r, "done")
    /\ UNCHANGED <<config, library, op, resp, consumed, io, outcome>>

\* fetch (line 79): const free = await this.waitTurn(5)
Fetch(r) ==
    /\ Fresh(r)
    /\ op' = [op EXCEPT ![r] = "fetch"]
    /\ Request(r, FetchPriority)
    /\ UNCHANGED <<config, library, resp, consumed, io, outcome>>

\* fetch (lines 81-89): the network call of an admitted fetch resolves with the
\* headers (e = "ok") or rejects.  With bufferBody the body read res.blob() starts;
\* otherwise the QueuedResponse is returned, or the error thrown, through finally.
FetchSettles(r, e) ==
    /\ op[r] = "fetch"
    /\ pc[r] = "held"
    /\ io' = [io EXCEPT ![r] = e]
    /\ LET reads == (e = "ok" /\ bufferBody) IN
       /\ consumed' = [consumed EXCEPT ![r] = reads]
       /\ outcome' = [outcome EXCEPT ![r] =
                         IF reads THEN "none" ELSE IF e = "ok" THEN "response" ELSE e]
       /\ IF HoldsSlot(reads)
          THEN Keep(r, IF reads THEN "blob" ELSE "done")
          ELSE IF FetchFinally(e)
               THEN Free(r, IF reads THEN "blob" ELSE "done")
               ELSE Keep(r, "done")
    /\ UNCHANGED <<config, library, op, resp>>

\* fetch (lines 83-89): the eager body read settles; the QueuedResponse with the
\* blob is returned, or the error thrown, through finally
BlobSettles(r, e) ==
    /\ op[r] = "fetch"
    /\ pc[r] = "blob"
    /\ io' = [io EXCEPT ![r] = e]
    /\ outcome' = [outcome EXCEPT ![r] = IF e = "ok" THEN "response" ELSE e]
    /\ IF FetchFinally(e) THEN Free(r, "done") ELSE Keep(r, "done")
    /\ UNCHANGED <<config, library, op, resp, consumed>>

\* A body method m of the QueuedResponse that fetch call f returned (lines 141-229).
\* With a bodyBlob every method but formData answers from it (JSON.parse may throw);
\* otherwise the method asks the queue for a turn.
BodyCall(r, m, f, e) ==
    /\ Fresh(r)
    /\ op[f] = "fetch" /\ pc[f] = "done" /\ outcome[f] = "response"
    /\ op' = [op EXCEPT ![r] = m]
    /\ resp' = [resp EXCEPT ![r] = f]
    /\ IF bufferBody /\ UsesBuffer(m)
       THEN /\ e = "ok" \/ m = "json"
            /\ io' = [io EXCEPT ![r] = e]
            /\ outcome' = [outcome EXCEPT ![r] = IF e = "ok" THEN "data" ELSE e]
            /\ Keep(r, "done")
       ELSE /\ e = "ok"
            /\ Request(r, MethodPriority(m))
            /\ UNCHANGED <<io, outcome>>
    /\ UNCHANGED <<config, library, consumed>>

\* An admitted body read (this.res.text() and the like) settles: it yields the data
\* only if the body of the raw Response was not read before; free() runs in finally.
ReadSettles(r, e) ==
    /\ op[r] \in Methods
    /\ pc[r] = "held"
    /\ e = "ok" => ~consumed[resp[r]]
    /\ consumed' = [consumed EXCEPT ![resp[r]] = TRUE]
    /\ io' = [io EXCEPT ![r] = e]
    /\ outcome' = [outcome EXCEPT ![r] = IF e = "ok" THEN "data" ELSE e]
    /\ IF ReadFinally(e) THEN Free(r, "done") ELSE Keep(r, "done")
    /\ UNCHANGED <<config, library, op, resp>>

\* A millisecond passes.  Microtasks run before the clock matters; without pacing
\* the code never reads the clock (line 15).
Tick ==
    /\ requestTimeoutMS > 0
    /\ now < Epoch + MaxTick
    /\ \A i \in 1..Len(delayed) : delayed[i].wake # 0
    /\ now' = now + 1
    /\ handoff' = 0
    /\ UNCHANGED <<config, library, active, queue, lastReleaseTime, delayed, pc, op, prio, resp,
                   consumed, io, outcome, admitOrder, lastAdmitAt, released, wasQueued,
                   burst, outranked>>

\* Direct callers of waitTurn on a queue with or without pacing.
Init ==
    /\ maxRequests \in {m \in 0..MaxCap : ValidConfig(m)}
    /\ requestTimeoutMS \in {0, MaxPace}
    /\ bufferBody = TRUE
    /\ Constructed
    /\ LibraryIdle

Next ==
    \/ \E r \in Jobs, p \in UserPriorities : WaitTurn(r, p)
    \/ Resume
    \/ \E r \in Jobs : Release(r)
    \/ Tick

Spec == Init /\ [][Next]_vars

\* Direct callers of waitTurn on a queue that can admit and does not pace, where
\* what is due happens: a suspended tryAcquire resumes (the event loop runs every
\* microtask), and a caller that was given a release function calls it.
InitLive ==
    /\ maxRequests \in 1..MaxCap
    /\ requestTimeoutMS = 0
    /\ bufferBody = TRUE
    /\ Constructed
    /\ LibraryIdle

NextLive ==
    \/ \E r \in Calls, p \in UserPriorities : WaitTurn(r, p)
    \/ Resume
    \/ \E r \in Calls : Release(r)

SpecLive ==
    /\ InitLive
    /\ [][NextLive]_vars
    /\ WF_vars(Resume)
    /\ \A r \in Calls : WF_vars(Release(r))

\* fetch and the body methods of the responses it returns, with and without eager
\* buffering, beside direct callers of waitTurn.
InitFetch ==
    /\ maxRequests \in 1..MaxCap
    /\ requestTimeoutMS = 0
    /\ bufferBody \in BOOLEAN
    /\ Constructed
    /\ LibraryIdle

NextFetch ==
    \/ \E r \in Calls : WaitTurn(r, DefaultPriority)
    \/ Resume
    \/ \E r \in Calls : Release(r)
    \/ \E r \in Calls : Fetch(r)
    \/ \E r \in Calls, e \in {"ok", "NetworkError"} : FetchSettles(r, e)
    \/ \E r \in Calls, e \in {"ok", "BodyError"} : BlobSettles(r, e)
    \/ \E r \in Calls, m \in Methods, f \in Calls, e \in {"ok", "BodyError"} :
            BodyCall(r, m, f, e)
    \/ \E r \in Calls, e \in {"ok", "BodyError"} : ReadSettles(r, e)

SpecFetch == InitFetch /\ [][NextFetch]_vars

\* One body method of each kind: formData, which always asks for a turn, and one of
\* each priority.
ReadMethods == {"formData", "json", "text"}

\* Fetches that succeed and the body methods of their responses only, so that a
\* fetch and a body read can wait together behind the fetches that fill the queue.
NextReads ==
    \/ Resume
    \/ \E r \in Jobs : Fetch(r)
    \/ \E r \in Jobs : FetchSettles(r, "ok")
    \/ \E r \in Jobs : BlobSettles(r, "ok")
    \/ \E r \in Jobs, m \in ReadMethods, f \in Jobs : BodyCall(r, m, f, "ok")
    \/ \E r \in Jobs, e \in {"ok", "BodyError"} : ReadSettles(r, e)

SpecReads == InitFetch /\ [][NextReads]_vars

\* ------------------------------------------------------------ linked lists
\* A list is a record of the object's fields and of the nodes it can reach: node n
\* has value[n] and next[n] (and prev[n] in a doubly linked list); Null is null.
Null == 0
\* an array slot that was never assigned (new Array(n))
Empty == -1
Values == 1..NVals
Indices == (0 - MaxLen - 1)..(MaxLen + 1)

RECURSIVE ArraysUpTo(_)
ArraysUpTo(n) ==
    IF n = 0 THEN {<<>>}
    ELSE LET s == ArraysUpTo(n - 1)
         IN s \cup {Append(a, v) : a \in {b \in s : Len(b) = n - 1}, v \in Values}

Reverse(arr) == [i \in 1..Len(arr) |-> arr[Len(arr) + 1 - i]]

\* LinkedList, field initialisers (lines 7-8)
EmptyList == [head |-> Null, length |-> 0, value |-> <<>>, next |-> <<>>]

\* for (i = 0; i < k && node.next; i++) node = node.next   (lines 39-41, 66-68)
RECURSIVE Advance(_, _, _)
Advance(nxt, node, k) ==
    IF k <= 0 \/ nxt[node] = Null THEN node ELSE Advance(nxt, nxt[node], k - 1)

\* for (i = 0; i < k; i++) { if (!node.next) return; node = node.next }
\* (lines 90-95, 112-117): Null when the walk falls off the list
RECURSIVE Seek(_, _, _)
Seek(nxt, node, k) ==
    IF k <= 0 THEN node
    ELSE IF nxt[node] = Null THEN Null
    ELSE Seek(nxt, nxt[node], k - 1)

\* index < 0 counts from the end, and is 0 if still negative (lines 30-31)
FromEnd(index, length) ==
    LET i == IF index < 0 THEN index + length ELSE index
    IN IF i < 0 THEN 0 ELSE i

\* get and set (lines 86-88, 108-110): the index the walk goes to
Clamp(index, length) ==
    FromEnd(IF index >= length THEN length - 1 ELSE index, length)

\* LinkedList.add (lines 24-47)
ListAdd(l, value, index) ==
    LET insertNode == Len(l.value) + 1
        vals == Append(l.value, value)
    IN IF l.length = 0
       THEN [head |-> insertNode, length |-> 1, value |-> vals,
             next |-> Append(l.next, Null)]
       ELSE LET i == FromEnd(index, l.length)
            IN IF i = 0
               THEN [head |-> insertNode, length |-> l.length + 1, value |-> vals,
                     next |-> Append(l.next, l.head)]
               ELSE LET prev == Advance(l.next, l.head, i - 1)
                    IN [head |-> l.head, length |-> l.length + 1, value |-> vals,
                        next |-> [Append(l.next, l.next[prev]) EXCEPT ![prev] = insertNode]]

\* LinkedList.remove (lines 54-75): the list afterwards and the value returned
ListRemove(l, index) ==
    IF l.head = Null \/ index < 0 \/ index >= l.length
    THEN [list |-> l, ret |-> Null]
    ELSE IF index = 0
    THEN [list |-> [l EXCEPT !.head = l.next[l.head], !.length = l.length - 1],
          ret |-> l.value[l.head]]
    ELSE LET prev == Advance(l.next, l.head, index - 1)
             ret == l.next[prev]
         IN IF ret = Null
            THEN [list |-> l, ret |-> Null]
            ELSE [list |-> [l EXCEPT !.next[prev] = l.next[ret], !.length = l.length - 1],
                  ret |-> l.value[ret]]

\* LinkedList.get (lines 82-97)
ListGet(l, index) ==
    IF l.head = Null THEN Null
    ELSE LET node == Seek(l.next, l.head, Clamp(index, l.length))
         IN IF node = Null THEN Null ELSE l.value[node]

\* LinkedList.set (lines 104-119)
ListSet(l, value, index) ==
    IF l.head = Null THEN l
    ELSE LET node == Seek(l.next, l.head, Clamp(index, l.length))
         IN IF node = Null THEN l ELSE [l EXCEPT !.value[node] = value]

\* the nodes from node on, following next, at most k of them
RECURSIVE Chain(_, _, _)
Chain(nxt, node, k) ==
    IF node = Null \/ k = 0 THEN <<>>
    ELSE <<node>> \o Chain(nxt, nxt[node], k - 1)

\* LinkedList.toArray (lines 131-139): length slots, filled while there is a node
ListToArray(l) ==
    LET c == Chain(l.next, l.head, l.length)
    IN [i \in 1..l.length |-> IF i <= Len(c) THEN l.value[c[i]] ELSE Empty]

\* LinkedList constructor (lines 13-17): adds arr[length-1], ..., arr[0] at index 0
RECURSIVE ListFrom(_, _, _)
ListFrom(l, arr, i) ==
    IF i = 0 THEN l ELSE ListFrom(ListAdd(l, arr[i], 0), arr, i - 1)

\* Nodes that nothing refers to any more are gone, and the names of the others do
\* not matter: the nodes a list reaches from its head, named in that order.
Trim(l) ==
    LET c == Chain(l.next, l.head, Len(l.value))
    IN IF c # <<>> /\ l.next[c[Len(c)]] # Null THEN l ELSE
       [head |-> IF c = <<>> THEN Null ELSE 1,
        length |-> l.length,
        value |-> [i \in 1..Len(c) |-> l.value[c[i]]],
        next |-> [i \in 1..Len(c) |-> IF i < Len(c) THEN i + 1 ELSE Null]]

ListNew(arr) == Trim(ListFrom(EmptyList, arr, Len(arr)))

\* ------------------------------------------------------------------- Stack
\* Stack constructor (lines 12-15)
StackNew(arr) == ListNew(Reverse(arr))

\* A push that puts the item under the others.
StackPushBottom(l, item) == ListAdd(l, item, l.length)

\* Stack.push (lines 20-22)
StackPush(l, item) == ListAdd(l, item, 0)

\* Stack.pop (lines 27-29)
StackPop(l) == ListRemove(l, 0)

\* Stack.top (lines 33-35)
StackTop(l) == ListGet(l, 0)

\* Stack.toArray (lines 39-41)
StackToArray(l) == Reverse(ListToArray(l))

\* -------------------------------------------------------- LinkedListDouble
\* LinkedListDouble, field initialisers (lines 147-149)
EmptyDList ==
    [start |-> Null, end |-> Null, length |-> 0, value |-> <<>>, next |-> <<>>, prev |-> <<>>]

\* index > this.length / 2 (lines 184, 246, 290, 324)
PastHalf(index, length) == 2 * index > length

\* LinkedListDouble.add (lines 165-211)
DListAdd(l, value, index) ==
    LET insertNode == Len(l.value) + 1
        vals == Append(l.value, value)
        i == FromEnd(index, l.length)
    IN IF l.length = 0
       THEN [start |-> insertNode, end |-> insertNode, length |-> 1, value |-> vals,
             next |-> Append(l.next, Null), prev |-> Append(l.prev, Null)]
       ELSE IF i = 0
       THEN [start |-> insertNode, end |-> l.end, length |-> l.length + 1, value |-> vals,
             next |-> Append(l.next, l.start),
             prev |-> [Append(l.prev, Null) EXCEPT ![l.start] = insertNode]]
       ELSE IF i >= l.length
       THEN [start |-> l.start, end |-> insertNode, length |-> l.length + 1, value |-> vals,
             next |-> [Append(l.next, Null) EXCEPT ![l.end] = insertNode],
             prev |-> Append(l.prev, l.end)]
       ELSE IF PastHalf(i, l.length)
       THEN LET next == Advance(l.prev, l.end, l.length - 1 - i)
                before == l.prev[next]
                nx == Append(l.next, next)
            IN [start |-> l.start, end |-> l.end, length |-> l.length + 1, value |-> vals,
                next |-> IF before # Null THEN [nx EXCEPT ![before] = insertNode] ELSE nx,
                prev |-> [Append(l.prev, before) EXCEPT ![next] = insertNode]]
       ELSE LET prev == Advance(l.next, l.start, i - 1)
                after == l.next[prev]
                pv == Append(l.prev, prev)
            IN [start |-> l.start, end |-> l.end, length |-> l.length + 1, value |-> vals,
                next |-> [Append(l.next, after) EXCEPT ![prev] = insertNode],
                prev |-> IF after # Null THEN [pv EXCEPT ![after] = insertNode] ELSE pv]

\* LinkedListDouble.remove (lines 218-275): the list afterwards and the value returned
DListRemove(l, index) ==
    IF l.start = Null \/ l.end = Null \/ index < 0 \/ index >= l.length
    THEN [list |-> l, ret |-> Null]
    ELSE IF l.length = 1 /\ index = 0
    THEN [list |-> [l EXCEPT !.start = Null, !.end = Null, !.length = l.length - 1],
          ret |-> l.value[l.start]]
    ELSE IF index = 0
    THEN [list |-> [l EXCEPT !.start = l.next[l.start], !.prev[l.next[l.start]] = Null,
                             !.length = l.length - 1],
          ret |-> l.value[l.start]]
    ELSE IF index = l.length - 1
    THEN [list |-> [l EXCEPT !.end = l.prev[l.end], !.next[l.prev[l.end]] = Null,
                             !.length = l.length - 1],
          ret |-> l.value[l.end]]
    ELSE IF PastHalf(index, l.length)
    THEN LET next == Advance(l.prev, l.end, l.length - 1 - index)
             ret == l.prev[next]
         IN IF ret = Null
            THEN [list |-> l, ret |-> Null]
            ELSE LET before == l.prev[ret]
                     unlinked == [l EXCEPT !.prev[next] = before, !.length = l.length - 1]
                 IN [list |-> IF before # Null
                              THEN [unlinked EXCEPT !.next[before] = next]
                              ELSE unlinked,
                     ret |-> l.value[ret]]
    ELSE LET prev == Advance(l.next, l.start, index - 1)
             ret == l.next[prev]
         IN IF ret = Null
            THEN [list |-> l, ret |-> Null]
            ELSE LET after == l.next[ret]
                     unlinked == [l EXCEPT !.next[prev] = after, !.length = l.length - 1]
                 IN [list |-> IF after # Null
                              THEN [unlinked EXCEPT !.prev[after] = prev]
                              ELSE unlinked,
                     ret |-> l.value[ret]]

\* LinkedListDouble.get (lines 282-309)
DListGet(l, index) ==
    IF l.start = Null \/ l.end = Null THEN Null
    ELSE LET i == Clamp(index, l.length)
             node == IF PastHalf(i, l.length)
                     THEN Seek(l.prev, l.end, l.length - 1 - i)
                     ELSE Seek(l.next, l.start, i)
         IN IF node = Null THEN Null ELSE l.value[node]

\* LinkedListDouble.toArray (lines 351-359)
DListToArray(l) ==
    LET c == Chain(l.next, l.start, l.length)
    IN [i \in 1..l.length |-> IF i <= Len(c) THEN l.value[c[i]] ELSE Empty]

\* LinkedListDouble constructor (lines 154-158)
RECURSIVE DListFrom(_, _, _)
DListFrom(l, arr, i) ==
    IF i = 0 THEN l ELSE DListFrom(DListAdd(l, arr[i], 0), arr, i - 1)

\* The position of node n in the chain c, Null for null.
Position(c, n) ==
    IF n = Null THEN Null ELSE CHOOSE i \in 1..Len(c) : c[i] = n

\* As Trim, for a list whose nodes are all reached from _start: _end and every
\* prev are renamed with the nodes they refer to.
DTrim(l) ==
    LET c == Chain(l.next, l.start, Len(l.value))
        reached == {c[i] : i \in 1..Len(c)} \cup {Null}
    IN IF \/ (c # <<>> /\ l.next[c[Len(c)]] # Null)
          \/ l.end \notin reached
          \/ \E i \in 1..Len(c) : l.prev[c[i]] \notin reached
       THEN l
       ELSE [start |-> Position(c, l.start),
             end |-> Position(c, l.end),
             length |-> l.length,
             value |-> [i \in 1..Len(c) |-> l.value[c[i]]],
             next |-> [i \in 1..Len(c) |-> IF i < Len(c) THEN i + 1 ELSE Null],
             prev |-> [i \in 1..Len(c) |-> Position(c, l.prev[c[i]])]]

DListNew(arr) == DTrim(DListFrom(EmptyDList, arr, Len(arr)))

\* ------------------------------------------- the lists and the stack in use
\* The variables of the FetchQueue, which no list or cache operation touches.
queueVars ==
    <<config, active, queue, lastReleaseTime, now, delayed, pc, op, prio, resp, consumed,
      io, outcome, admitOrder, lastAdmitAt, released, wasQueued, handoff, burst, outranked>>

\* A queue that nobody uses.
QueueIdle ==
    /\ maxRequests = 1
    /\ requestTimeoutMS = 0
    /\ bufferBody = TRUE
    /\ Constructed

\* What is remembered of the last call: the method, its arguments, the value it
\* returned, the array of the list before it, and the array it was given or returned.
Called(method, index, value, ret, before, arr) ==
    [op |-> method, index |-> index, value |-> value, ret |-> ret, before |-> before,
     arr |-> arr]

\* list.add(value, index)
ListAddCall(value, index) ==
    /\ list # <<>>
    /\ list.length < MaxLen
    /\ list' = Trim(ListAdd(list, value, index))
    /\ call' = Called("add", index, value, Null, ListToArray(list), <<>>)
    /\ UNCHANGED <<queueVars, dlist, file, store>>

\* list.remove(index)
ListRemoveCall(index) ==
    LET r == ListRemove(list, index)
    IN /\ list # <<>>
       /\ list' = Trim(r.list)
       /\ call' = Called("remove", index, Null, r.ret, ListToArray(list), <<>>)
       /\ UNCHANGED <<queueVars, dlist, file, store>>

\* list.get(index)
ListGetCall(index) ==
    /\ list # <<>>
    /\ call' = Called("get", index, Null, ListGet(list, index), ListToArray(list), <<>>)
    /\ UNCHANGED <<queueVars, list, dlist, file, store>>

\* list.set(value, index)
ListSetCall(value, index) ==
    /\ list # <<>>
    /\ list' = Trim(ListSet(list, value, index))
    /\ call' = Called("set", index, value, Null, ListToArray(list), <<>>)
    /\ UNCHANGED <<queueVars, dlist, file, store>>

\* dlist.add(value, index)
DListAddCall(value, index) ==
    /\ dlist # <<>>
    /\ dlist.length < MaxLen
    /\ dlist' = DTrim(DListAdd(dlist, value, index))
    /\ call' = Called("add", index, value, Null, DListToArray(dlist), <<>>)
    /\ UNCHANGED <<queueVars, list, file, store>>

\* dlist.remove(index)
DListRemoveCall(index) ==
    LET r == DListRemove(dlist, index)
    IN /\ dlist # <<>>
       /\ dlist' = DTrim(r.list)
       /\ call' = Called("remove", index, Null, r.ret, DListToArray(dlist), <<>>)
       /\ UNCHANGED <<queueVars, list, file, store>>

\* dlist.get(index)
DListGetCall(index) ==
    /\ dlist # <<>>
    /\ call' = Called("get", index, Null, DListGet(dlist, index), DListToArray(dlist), <<>>)
    /\ UNCHANGED <<queueVars, list, dlist, file, store>>

\* new LinkedList(arr) or new LinkedListDouble(arr)
InitLists ==
    /\ QueueIdle
    /\ file = <<>>
    /\ store = <<>>
    /\ \E arr \in ArraysUpTo(MaxLen) :
        /\ \/ list = ListNew(arr) /\ dlist = <<>>
           \/ list = <<>> /\ dlist = DListNew(arr)
        /\ call = Called("new", 0, Null, Null, <<>>, arr)

NextLists ==
    \/ \E v \in Values, i \in Indices : ListAddCall(v, i)
    \/ \E i \in Indices : ListRemoveCall(i)
    \/ \E i \in Indices : ListGetCall(i)
    \/ \E v \in Values, i \in Indices : ListSetCall(v, i)
    \/ \E v \in Values, i \in Indices : DListAddCall(v, i)
    \/ \E i \in Indices : DListRemoveCall(i)
    \/ \E i \in Indices : DListGetCall(i)

SpecLists == InitLists /\ [][NextLists]_vars

\* stack.push(item)
StackPushCall(item) ==
    /\ list.length < MaxLen
    /\ list' = Trim(StackPush(list, item))
    /\ call' = Called("push", 0, item, Null, StackToArray(list), <<>>)
    /\ UNCHANGED <<queueVars, dlist, file, store>>

\* stack.pop()
StackPopCall ==
    LET r == StackPop(list)
    IN /\ list' = Trim(r.list)
       /\ call' = Called("pop", 0, Null, r.ret, StackToArray(list), <<>>)
       /\ UNCHANGED <<queueVars, dlist, file, store>>

\* stack.top
StackTopCall ==
    /\ call' = Called("top", 0, Null, StackTop(list), StackToArray(list), <<>>)
    /\ UNCHANGED <<queueVars, list, dlist, file, store>>

\* stack.toArray()
StackToArrayCall ==
    /\ call' = Called("toArray", 0, Null, Null, StackToArray(list), StackToArray(list))
    /\ UNCHANGED <<queueVars, list, dlist, file, store>>

\* new Stack(arr): list is the stack's private list
InitStack ==
    /\ QueueIdle
    /\ dlist = <<>>
    /\ file = <<>>
    /\ store = <<>>
    /\ \E arr \in ArraysUpTo(MaxLen) :
        /\ list = StackNew(arr)
        /\ call = Called("new", 0, Null, Null, <<>>, arr)

NextStack ==
    \/ \E v \in Values : StackPushCall(v)
    \/ StackPopCall
    \/ StackTopCall
    \/ StackToArrayCall

SpecStack == InitStack /\ [][NextStack]_vars

\* ------------------------------------------------------------- MemoryCache
Undefined == "undefined"
\* Entry names: an ordinary one and one that every object inherits from
\* Object.prototype.
EntryNames == {"a", "toString"}
Inherited == {"toString"}
Signatures == {"s1", "s2", Undefined}
Datas == {"d1", "d2", Undefined}
\* compareFunc: the default, compare(a, b), and a custom one that accepts everything
CompareFuncs == {"compare", "always"}

\* _store = {} (line 251, and clear, lines 310-312): no own property
NoEntry == [own |-> FALSE, signature |-> Undefined, data |-> Undefined]
EmptyStore == [e \in EntryNames |-> NoEntry]

\* entry in this._store (lines 258, 269, 322): own or inherited property
In(s, entry) == s[entry].own \/ entry \in Inherited

\* this._store[entry].data (line 261) and .signature (line 272): the field of the
\* own entry; undefined from the inherited function object; a TypeError when
\* this._store[entry] is undefined
Field(s, entry, field) ==
    IF s[entry].own THEN [threw |-> FALSE, ret |-> s[entry][field]]
    ELSE IF entry \in Inherited THEN [threw |-> FALSE, ret |-> Undefined]
    ELSE [threw |-> TRUE, ret |-> Undefined]

\* MemoryCache.readData (lines 257-262)
ReadData(s, entry) ==
    [warned |-> ~In(s, entry)] @@ Field(s, entry, "data")

\* MemoryCache.readSignature (lines 268-273)
ReadSignature(s, entry) ==
    [warned |-> ~In(s, entry)] @@ Field(s, entry, "signature")

\* MemoryCache.write (lines 281-283)
MemWrite(s, entry, signature, data) ==
    [s EXCEPT ![entry] = [own |-> TRUE, signature |-> signature, data |-> data]]

\* MemoryCache.delete (lines 289-291)
MemDelete(s, entry) == [s EXCEPT ![entry] = NoEntry]

\* MemoryCache.entries (lines 296-298): Object.keys, the own properties
MemEntries(s) == {e \in EntryNames : s[e].own}

\* compareFunc(cachedSignature, newSignature) (line 321): compare (Misc.ts line 286,
\* a === b on these signatures) or the custom function
Compares(f, cached, signature) ==
    IF f = "compare" THEN cached = signature ELSE TRUE

\* MemoryCache.ensure (lines 321-330): the store afterwards, the value returned and
\* the number of calls of the generator, which returns data
MemEnsure(s, entry, signature, data, f) ==
    IF In(s, entry) /\ Compares(f, ReadSignature(s, entry).ret, signature)
    THEN [store |-> s, ret |-> ReadData(s, entry).ret, generated |-> 0]
    ELSE [store |-> MemWrite(s, entry, signature, data), ret |-> data, generated |-> 1]

\* What is remembered of the last call on the cache.
MemCalled(method, entry, signature, data, f, before, result) ==
    [op |-> method, entry |-> entry, signature |-> signature, data |-> data,
     compareFunc |-> f, before |-> before] @@ result

NoResult == [ret |-> Undefined, threw |-> FALSE, warned |-> FALSE, generated |-> 0]

\* cache.write(entry, signature, data)
MemWriteCall(entry, signature, data) ==
    /\ store' = MemWrite(store, entry, signature, data)
    /\ call' = MemCalled("write", entry, signature, data, "none", store, NoResult)
    /\ UNCHANGED <<queueVars, list, dlist, file>>

\* cache.delete(entry)
MemDeleteCall(entry) ==
    /\ store' = MemDelete(store, entry)
    /\ call' = MemCalled("delete", entry, Undefined, Undefined, "none", store, NoResult)
    /\ UNCHANGED <<queueVars, list, dlist, file>>

\* cache.clear()
MemClearCall ==
    /\ store' = EmptyStore
    /\ call' = MemCalled("clear", "", Undefined, Undefined, "none", store, NoResult)
    /\ UNCHANGED <<queueVars, list, dlist, file>>

\* cache.readData(entry)
ReadDataCall(entry) ==
    /\ call' = MemCalled("readData", entry, Undefined, Undefined, "none", store,
                         [generated |-> 0] @@ ReadData(store, entry))
    /\ UNCHANGED <<queueVars, list, dlist, file, store>>

\* cache.readSignature(entry)
ReadSignatureCall(entry) ==
    /\ call' = MemCalled("readSignature", entry, Undefined, Undefined, "none", store,
                         [generated |-> 0] @@ ReadSignature(store, entry))
    /\ UNCHANGED <<queueVars, list, dlist, file, store>>

\* cache.ensure(entry, signature, () => data, compareFunc)
MemEnsureCall(entry, signature, data, f) ==
    LET r == MemEnsure(store, entry, signature, data, f)
    IN /\ store' = r.store
       /\ call' = MemCalled("ensure", entry, signature, data, f, store,
                            [ret |-> r.ret, threw |-> FALSE, warned |-> FALSE,
                             generated |-> r.generated])
       /\ UNCHANGED <<queueVars, list, dlist, file>>

\* new MemoryCache()
InitMemory ==
    /\ QueueIdle
    /\ list = <<>>
    /\ dlist = <<>>
    /\ file = <<>>
    /\ store = EmptyStore
    /\ call = MemCalled("new", "", Undefined, Undefined, "none", EmptyStore, NoResult)

NextMemory ==
    \/ \E e \in EntryNames, s \in Signatures, d \in Datas : MemWriteCall(e, s, d)
    \/ \E e \in EntryNames : MemDeleteCall(e)
    \/ MemClearCall
    \/ \E e \in EntryNames : ReadDataCall(e)
    \/ \E e \in EntryNames : ReadSignatureCall(e)
    \/ \E e \in EntryNames, s \in Signatures, d \in Datas, f \in CompareFuncs :
            MemEnsureCall(e, s, d, f)

SpecMemory == InitMemory /\ [][NextMemory]_vars

\* ------------------------------------------------------------------- Cache
\* Entry names: two ordinary ones, and the one that names an object's prototype.
CacheNames == {"a", "b", "__proto__"}
\* Values handed to write or returned by a generator: the numbers 1 and 2, NaN,
\* null, a function, undefined.
JsValues == {"Number(1)", "Number(2)", "NaN", "null", "function", Undefined}
\* what cache["__proto__"] evaluates to
ObjectPrototype == "Object.prototype"
Omitted == "omitted"

\* JSON.stringify of a property value: a finite number is its digits, NaN and null
\* are null, a function or undefined leaves the property out
JsonOf(v) ==
    CASE v = "Number(1)" -> "1"
      [] v = "Number(2)" -> "2"
      [] v \in {"NaN", "null"} -> "null"
      [] OTHER -> Omitted

\* JSON.parse of a value's text
ParseValue(token) ==
    CASE token = "1" -> "Number(1)"
      [] token = "2" -> "Number(2)"
      [] token = "null" -> "null"

\* An object is the sequence of its own properties, in the order they were added.
Own(obj) == {obj[i].name : i \in 1..Len(obj)}
Slot(obj, name) == CHOOSE i \in 1..Len(obj) : obj[i].name = name

\* JSON.stringify(cache) (line 148): the text of the properties it does not omit
Stringify(obj) ==
    LET kept == SelectSeq(obj, LAMBDA p : JsonOf(p.value) # Omitted)
    IN [i \in 1..Len(kept) |-> [name |-> kept[i].name, token |-> JsonOf(kept[i].value)]]

\* JSON.parse(raw) (line 88)
Parse(text) ==
    [i \in 1..Len(text) |-> [name |-> text[i].name, value |-> ParseValue(text[i].token)]]

\* A write that forgets the other entries.
AssignAlone(obj, name, v) == <<[name |-> name, value |-> v]>>

\* cache[name] = data (line 145): "__proto__" is the prototype accessor and makes
\* no own property; an existing property keeps its place, a new one goes last
Assign(obj, name, v) ==
    IF name = "__proto__" THEN obj
    ELSE IF name \in Own(obj) THEN [obj EXCEPT ![Slot(obj, name)].value = v]
    ELSE Append(obj, [name |-> name, value |-> v])

\* delete cache[name] (line 143)
Delete(obj, name) == SelectSeq(obj, LAMBDA p : p.name # name)

\* cache[entry] (line 125)
Lookup(obj, name) ==
    IF name \in Own(obj) THEN obj[Slot(obj, name)].value
    ELSE IF name = "__proto__" THEN ObjectPrototype
    ELSE Undefined

\* the cache file does not exist
NoFile == [exists |-> FALSE, text |-> <<>>]

\* Cache.ensureFile (lines 55-62) with Misc.ensureFile: creates the file holding "{}"
\* unless it exists
EnsureFile(f) == IF f.exists THEN f ELSE [exists |-> TRUE, text |-> <<>>]

\* Cache.readFile (lines 77-93): the parsed object
ReadFile(f) == Parse(EnsureFile(f).text)

\* Cache.read (lines 123-126)
CacheRead(f, entry) == [file |-> EnsureFile(f), ret |-> Lookup(ReadFile(f), entry)]

\* An ensure that calls its generator whether or not the entry is there.
NeedsAlways(names, entry) == TRUE

\* ensure (line 213): the generator is needed when entries does not include the name
Needs(names, entry) == entry \notin names

\* Cache.write (lines 140-153)
CacheWrite(f, name, data) ==
    LET cache == ReadFile(f)
        changed == IF data = Undefined THEN Delete(cache, name) ELSE Assign(cache, name, data)
    IN [exists |-> TRUE, text |-> Stringify(changed)]

\* Cache.clear (lines 176-183): removes the file; the error of removing a file that
\* does not exist is logged
CacheClear(f) == NoFile

\* Cache.entriesAsync, Cache.entries (lines 198-206): Object.getOwnPropertyNames
CacheEntries(f) == Own(ReadFile(f))

\* Cache.ensure (lines 212-217): the generator returns data
CacheEnsure(f, entry, data) ==
    LET needed == Needs(CacheEntries(f), entry)
        written == IF needed THEN CacheWrite(f, entry, data) ELSE EnsureFile(f)
    IN [file |-> written, ret |-> CacheRead(written, entry).ret,
        generated |-> IF needed THEN 1 ELSE 0]

\* What is remembered of the last call on the cache file.
CacheCalled(method, name, data, ret, generated, before) ==
    [op |-> method, name |-> name, data |-> data, ret |-> ret, generated |-> generated,
     before |-> before]

\* await cache.write(name, data)
CacheWriteCall(name, data) ==
    /\ file' = CacheWrite(file, name, data)
    /\ call' = CacheCalled("write", name, data, Undefined, 0, file)
    /\ UNCHANGED <<queueVars, list, dlist, store>>

\* await cache.read(entry)
CacheReadCall(entry) ==
    LET r == CacheRead(file, entry)
    IN /\ file' = r.file
       /\ call' = CacheCalled("read", entry, Undefined, r.ret, 0, file)
       /\ UNCHANGED <<queueVars, list, dlist, store>>

\* await cache.clear()
CacheClearCall ==
    /\ file' = CacheClear(file)
    /\ call' = CacheCalled("clear", "", Undefined, Undefined, 0, file)
    /\ UNCHANGED <<queueVars, list, dlist, store>>

\* await cache.ensure(entry, () => data)
CacheEnsureCall(entry, data) ==
    LET r == CacheEnsure(file, entry, data)
    IN /\ file' = r.file
       /\ call' = CacheCalled("ensure", entry, data, r.ret, r.generated, file)
       /\ UNCHANGED <<queueVars, list, dlist, store>>

\* new Cache(fileName), the file not there yet
InitCache ==
    /\ QueueIdle
    /\ list = <<>>
    /\ dlist = <<>>
    /\ store = <<>>
    /\ file = NoFile
    /\ call = CacheCalled("new", "", Undefined, Undefined, 0, NoFile)

NextCache ==
    \/ \E n \in CacheNames, d \in JsValues : CacheWriteCall(n, d)
    \/ \E n \in CacheNames : CacheReadCall(n)
    \/ CacheClearCall
    \/ \E n \in CacheNames, d \in JsValues : CacheEnsureCall(n, d)

SpecCache == InitCache /\ [][NextCache]_vars

\* ------------------------------------------------------------------ claims

Started == {r \in Jobs : pc[r] # "idle"}
Admitted == {admitOrder[i] : i \in 1..Len(admitOrder)}
Pos(r) == CHOOSE i \in 1..Len(admitOrder) : admitOrder[i] = r
RECURSIVE Total(_, _)
Total(f, S) == IF S = {} THEN 0 ELSE LET x == CHOOSE y \in S : TRUE IN f[x] + Total(f, S \ {x})
Releases == Total(released, Jobs)
\* where waiter j stands in its bucket
Place(q, j) == CHOOSE i \in 1..Len(q[prio[j]]) : q[prio[j]][i] = j

\* C1: in every reachable state the active count is at most maxRequests.
C1_ActiveWithinCapacity == active <= maxRequests

\* C2: without pacing, when N > C requests of one priority were all made on the idle
\* queue before any of them was admitted, then once they are all settled and before
\* any release exactly C of them are admitted and the other N - C are pending.
C2_BurstAdmitsCapacity ==
    ( /\ requestTimeoutMS = 0
      /\ burst
      /\ Cardinality(Started) > maxRequests
      /\ \A a, b \in Started : prio[a] = prio[b]
      /\ delayed = <<>>
      /\ Releases = 0 )
    => /\ active = maxRequests
       /\ Cardinality(Pending(queue)) = Cardinality(Started) - maxRequests

\* C3: of two requests of the same priority that were both put in the pending map,
\* the one requested first (the lower call number) is admitted first.
C3_FifoWithinPriority ==
    \A a, b \in wasQueued :
        (a < b /\ prio[a] = prio[b] /\ b \in Admitted) => (a \in Admitted /\ Pos(a) < Pos(b))

\* C4: whenever a release hands off to a waiter, that waiter is the first entry of
\* the numerically lowest populated bucket; and of two waiters that were pending
\* together at a release, the one at the numerically lower priority is admitted first.
C4_HandoffIsFirstOfLowest ==
    (released' # released /\ Pending(queue) # {}) =>
        /\ handoff' \in Pending(queue)
        /\ \A j \in Pending(queue) :
              \/ prio[handoff'] < prio[j]
              \/ prio[handoff'] = prio[j] /\ Place(queue, handoff') <= Place(queue, j)
C4_LowerPriorityFirst ==
    \A x \in outranked : x[2] \in Admitted => (x[1] \in Admitted /\ Pos(x[1]) < Pos(x[2]))
\* C4 (strict priority): every release hands off to the first entry of the lowest
\* populated bucket, and in every reachable state the lower priority number of two
\* waiters that were pending together has been admitted first.
C4_StrictPriority == [][C4_HandoffIsFirstOfLowest]_vars /\ []C4_LowerPriorityFirst
\* capacity 1, priorities 5, 5, 0 queued behind the occupying call 1: admitted 0 first,
\* then the two priority-5 calls in the order they were made
C4_Witness ==
    /\ maxRequests = 1
    /\ wasQueued = {2, 3, 4}
    /\ prio[2] = 5 /\ prio[3] = 5 /\ prio[4] = 0
    /\ {<<4, 2>>, <<4, 3>>} \subseteq outranked
    /\ admitOrder = <<1, 4, 2, 3>>

\* C5: with requestTimeoutMS = T > 0, an admission is granted at least T after the
\* admission before it.
C5_AdmissionGap ==
    (Len(admitOrder') > Len(admitOrder) /\ lastAdmitAt >= 0) =>
        lastAdmitAt' - lastAdmitAt >= requestTimeoutMS
\* C5 (pacing): every step that grants an admission keeps the gap of at least T.
C5_Pacing == [][C5_AdmissionGap]_vars

\* C6: an admitted fetch runs its release function exactly once on every exit path:
\* the step in which it returns or throws takes one off the active count, a failure
\* of the network call or of the eager body read is what the caller gets, and a
\* fetch that is over has released once.
C6_ExitReleases ==
    \A r \in Jobs :
        (op[r] = "fetch" /\ pc[r] \in {"held", "blob"} /\ pc'[r] = "done") =>
            /\ released[r] = 0 /\ released'[r] = 1
            /\ active' = active - 1
            /\ io'[r] \in Errors => outcome'[r] = io'[r]
C6_ReleasedOnce ==
    \A r \in Jobs :
        op[r] = "fetch" =>
            /\ pc[r] = "done" => released[r] = 1 /\ (io[r] \in Errors => outcome[r] = io[r])
            /\ pc[r] # "done" => released[r] = 0
\* C6 (release on every exit path of fetch): every exit step releases once and hands
\* on the failure, and in every reachable state a finished fetch has released once.
C6_FetchReleasesOnEveryExit == [][C6_ExitReleases]_vars /\ []C6_ReleasedOnce
\* both failures happened, each released its slot, and the active count is back at 0
C6_Witness ==
    /\ \E r \in Jobs : op[r] = "fetch" /\ pc[r] = "done" /\ outcome[r] = "NetworkError"
                        /\ released[r] = 1
    /\ \E r \in Jobs : op[r] = "fetch" /\ pc[r] = "done" /\ outcome[r] = "BodyError"
                        /\ released[r] = 1
    /\ active = 0

\* C7: the active count is the number of admissions granted minus the number of
\* release calls made, and it is 0 whenever every admission granted has been
\* released once and no request is pending or suspended on its way to admission.
Quiescent ==
    /\ Pending(queue) = {}
    /\ delayed = <<>>
    /\ \A r \in Admitted : released[r] = 1
C7_SlotConservation ==
    /\ active = Len(admitOrder) - Releases
    /\ Quiescent => active = 0
C7_Witness ==
    /\ Quiescent
    /\ Len(admitOrder) = NJobs
    /\ wasQueued # {}
    /\ active = 0

\* C8: with bufferBody, no body method of a QueuedResponse asks the queue for a turn.
C8_BufferedReadsSkipQueue ==
    \A r \in Jobs :
        (bufferBody /\ op[r] \in Methods) => pc[r] \in {"idle", "done"} /\ r \notin Admitted

\* C9: with bufferBody a fetch keeps its slot while the body is read and releases it
\* only when it is over; without bufferBody the slot is released in the very step in
\* which the headers arrive, and no body read has started before that release.
C9_ReleaseAfterBody ==
    \A r \in Jobs :
        op[r] = "fetch" =>
            /\ pc[r] = "blob" => (bufferBody /\ r \in Admitted /\ released[r] = 0 /\ active >= 1)
            /\ bufferBody =>
                  /\ released[r] >= 1 => pc[r] = "done"
                  /\ outcome[r] = "response" => consumed[r]
            /\ ~bufferBody =>
                  /\ io[r] = "ok" => released[r] = 1
                  /\ consumed[r] => released[r] = 1
                  /\ \A b \in Jobs : (resp[b] = r) => released[r] = 1
\* the queue is full because of a fetch that is reading its body, and a request waits
C9_Witness ==
    /\ bufferBody
    /\ \E r \in Jobs : op[r] = "fetch" /\ pc[r] = "blob" /\ consumed[r]
    /\ active = maxRequests
    /\ Pending(queue) # {}

\* C10: without a buffered body a body method is admitted by the queue before it
\* reads, the read settles while it holds the slot, it releases exactly once, in the
\* step in which the read settles, and a failed read is what the caller gets.
C10_ReadStep ==
    \A r \in Jobs :
        (op[r] \in Methods /\ ~bufferBody /\ io'[r] # io[r]) =>
            /\ pc[r] = "held" /\ r \in Admitted
            /\ released[r] = 0 /\ released'[r] = 1
            /\ active' = active - 1
            /\ outcome'[r] = IF io'[r] = "ok" THEN "data" ELSE io'[r]
C10_ReadState ==
    \A r \in Jobs :
        (op[r] \in Methods /\ ~bufferBody) =>
            /\ pc[r] = "done" => (r \in Admitted /\ released[r] = 1 /\ io[r] # "none")
            /\ pc[r] # "done" => (released[r] = 0 /\ io[r] = "none")
\* C10 (unbuffered body read): every step in which a read settles is made holding the
\* slot and releases it once, and in every reachable state a finished read has
\* been admitted and has released once.
C10_UnbufferedReadHoldsSlot == [][C10_ReadStep]_vars /\ []C10_ReadState
\* a json() read failed after it had waited in the pending map, and released its slot
C10_Witness ==
    /\ ~bufferBody
    /\ \E r \in Jobs : /\ op[r] = "json" /\ pc[r] = "done" /\ outcome[r] = "BodyError"
                       /\ r \in wasQueued /\ released[r] = 1
    /\ active = 0

\* C11: no FetchQueue with maxRequests <= 0 exists: constructing one fails, so no
\* call ever waits in the pending map of a queue that can admit nothing.
C11_NoQueueWithoutCapacity ==
    \A r \in Jobs : pc[r] = "queued" => maxRequests >= 1

\* C12: a release takes one off the active count and runs the admission attempt of
\* at most one pending call, and a pending call leaves the pending map only in a
\* release step, as the call that release handed off to, towards its admission.
C12_ReleaseStep ==
    released' # released =>
        /\ active' = active - 1
        /\ Cardinality(Pending(queue) \ Pending(queue')) <= 1
        /\ Cardinality({r \in Jobs : pc[r] = "queued" /\ pc'[r] # "queued"}) <= 1
        /\ Len(delayed') <= Len(delayed) + 1
C12_LeavesPendingByRelease ==
    \A r \in Jobs :
        (pc[r] = "queued" /\ pc'[r] # "queued") =>
            /\ released' # released
            /\ handoff' = r
            /\ r \notin Pending(queue')
            /\ pc'[r] = "delay"
C12_NoBatchWake == [][C12_ReleaseStep /\ C12_LeavesPendingByRelease]_vars
\* a release has just handed off to one waiter while another is still pending
C12_Witness ==
    /\ handoff # 0
    /\ pc[handoff] = "delay"
    /\ Pending(queue) # {}
    /\ active < maxRequests

\* the entries other than name are the same, with the same values, in f and g
OthersKept(f, g, name) ==
    \A o \in CacheNames \ {name} :
        /\ o \in CacheEntries(f) <=> o \in CacheEntries(g)
        /\ CacheRead(f, o).ret = CacheRead(g, o).ret
\* the file is there and its text is "{}"
HoldsEmptyObject(f) == f.exists /\ f.text = <<>>
\* JSON keeps the value under this name: the name makes a property and the text of
\* the value is not left out
Kept(name, data) == name # "__proto__" /\ JsonOf(data) # Omitted
\* the values that come back from JSON as they went in
Faithful == {v \in JsValues : JsonOf(v) # Omitted /\ ParseValue(JsonOf(v)) = v}

C15_EnsureHitOrGenerate ==
    call.op = "ensure" =>
        LET cached == call.before[call.entry]
            hit == cached.own /\ Compares(call.compareFunc, cached.signature, call.signature)
        IN IF hit
           THEN /\ call.generated = 0
                /\ call.ret = cached.data
                /\ store = call.before
           ELSE /\ call.generated = 1
                /\ call.ret = call.data
                /\ store = [call.before EXCEPT ![call.entry] =
                                [own |-> TRUE, signature |-> call.signature, data |-> call.data]]

\* C16: readData and readSignature of an entry that is not in the cache log a warning
\* and return undefined without throwing, and leave the store unchanged.
C16_ReadMissingReturnsUndefined ==
    (call.op \in {"readData", "readSignature"} /\ call.entry \notin MemEntries(call.before)) =>
        /\ call.warned
        /\ ~call.threw
        /\ call.ret = Undefined
        /\ store = call.before

\* arr without its k-th element
RemoveAt(arr, k) == [i \in 1..(Len(arr) - 1) |-> IF i < k THEN arr[i] ELSE arr[i + 1]]
\* index is a position of a list of n elements, counted from the end if negative
InBounds(index, n) == index < n /\ index + n >= 0
\* that position, counted from 1
At(index, n) == (IF index < 0 THEN index + n ELSE index) + 1

\* C17: LinkedListDouble.remove(index) with 0 <= index < n returns the value that was
\* at position index and leaves the list as before without that position, of length
\* n - 1; with any other index it returns null and leaves the list unchanged.
C17_RemovesAtIndex ==
    (dlist # <<>> /\ call.op = "remove") =>
        LET n == Len(call.before)
        IN IF 0 <= call.index /\ call.index < n
           THEN /\ call.ret = call.before[call.index + 1]
                /\ DListToArray(dlist) = RemoveAt(call.before, call.index + 1)
                /\ dlist.length = n - 1
           ELSE /\ call.ret = Null
                /\ DListToArray(dlist) = call.before
                /\ dlist.length = n

\* C18: get(index) of LinkedList and of LinkedListDouble returns null when index is
\* out of bounds (index >= length or index < -length) and the value at that position,
\* counted from the end for a negative index, when it is in bounds.
C18_GetNullOutOfBounds ==
    call.op = "get" =>
        LET n == Len(call.before)
        IN IF InBounds(call.index, n)
           THEN call.ret = call.before[At(call.index, n)]
           ELSE call.ret = Null

\* C19: LinkedList.set(value, index) with index out of bounds leaves toArray() and
\* length as they were; with an index in bounds it changes that position only.
C19_SetNothingOutOfBounds ==
    (list # <<>> /\ call.op = "set") =>
        LET n == Len(call.before)
        IN /\ list.length = n
           /\ ListToArray(list) =
                IF InBounds(call.index, n)
                THEN [call.before EXCEPT ![At(call.index, n)] = call.value]
                ELSE call.before

\* C20: a Stack is last-in first-out.  A pop that follows a push returns the pushed
\* item and leaves the stack as it was before the push; a pop returns what top
\* returns; new Stack(arr).toArray() is arr, with the last element of arr on top;
\* pop and top of an empty stack return null.
C20_Step ==
    /\ (call.op = "push" /\ call'.op = "pop") =>
            /\ call'.ret = call.value
            /\ StackToArray(list') = call.before
    /\ call'.op = "pop" =>
            /\ call'.ret = StackTop(list)
            /\ call'.before = StackToArray(list)
            /\ StackToArray(list') = RemoveAt(call'.before, Len(call'.before))
    /\ call'.op = "push" =>
            /\ StackToArray(list') = Append(StackToArray(list), call'.value)
            /\ StackTop(list') = call'.value
C20_State ==
    /\ call.op = "new" =>
            /\ StackToArray(list) = call.arr
            /\ StackTop(list) = IF call.arr = <<>> THEN Null ELSE call.arr[Len(call.arr)]
    /\ call.op = "toArray" => call.arr = call.before
    /\ call.op \in {"pop", "top"} =>
            call.ret = IF call.before = <<>> THEN Null ELSE call.before[Len(call.before)]
C20_Lifo == [][C20_Step]_vars /\ []C20_State
\* a pop has just returned the top of a stack of several items
C20_Witness ==
    /\ call.op = "pop"
    /\ Len(call.before) >= 2
    /\ call.ret = call.before[Len(call.before)]
    /\ call.before[1] # call.ret

\* C23: a waiting request stays in the pending map until the step in which it is
\* admitted: no request that has left the pending map is still without its
\* admission, and none that has left it is in it again.
C23_LeavesPendingWhenAdmitted ==
    \A r \in wasQueued :
        /\ r \in Pending(queue) \/ r \in Admitted
        /\ ~(r \in Pending(queue) /\ handoff = r)

\* C24: every priority key of the pending map maps to a non-empty list of waiters.
C24_NoEmptyBucket == \A k \in DOMAIN queue : Len(queue[k]) >= 1
\* a release has just taken the last waiter of one bucket, which is gone from the
\* pending map, while another bucket still has a waiter
C24_Witness ==
    /\ handoff # 0
    /\ handoff \notin Pending(queue)
    /\ prio[handoff] \notin DOMAIN queue
    /\ DOMAIN queue # {}

\* C25: the step that grants an admission sets lastReleaseTime to the time of that
\* admission.
C25_AdmissionStamps ==
    Len(admitOrder') > Len(admitOrder) => lastReleaseTime' = now'
\* C25 (pacing timestamp): every step that grants an admission stamps it.
C25_StampOnAdmission == [][C25_AdmissionStamps]_vars

\* C27: on a queue with maxRequests >= 1, when every admission granted is released,
\* every request made is eventually admitted and the run ends with an empty pending
\* map and active count 0; and in no reachable state is a request pending while no
\* job is admitted and no admission is in progress.
C27_SomeoneWillCallNext ==
    (maxRequests >= 1 /\ Pending(queue) # {}) => (active > 0 \/ delayed # <<>>)
C27_Drained ==
    /\ Pending(queue) = {}
    /\ delayed = <<>>
    /\ active = 0
    /\ \A r \in Jobs : pc[r] \in {"idle", "done"}
C27_NoLostWakeup ==
    /\ []C27_SomeoneWillCallNext
    /\ \A r \in Calls : (pc[r] # "idle") ~> (r \in Admitted)
    /\ <>[]C27_Drained
\* every call was made, several of them had to wait in the pending map, and all of
\* them have been admitted and are over
C27_Witness ==
    /\ \A r \in Calls : pc[r] = "done" /\ r \in Admitted
    /\ Cardinality(wasQueued) >= 2
    /\ C27_Drained

\* C26: every body method that asks the queue for a turn asks with priority 3 or 4,
\* a fetch with 5; and of a body read and a fetch that were pending together, the
\* body read is admitted first, whichever of them was queued first.
C26_BodyReadsOutrankFetches ==
    /\ \A m \in Methods :
          MethodPriority(m) \in {ParsePriority, BodyPriority} /\ MethodPriority(m) < FetchPriority
    /\ \A r \in Jobs :
          /\ (op[r] \in Methods /\ (r \in wasQueued \/ r \in Admitted \/ pc[r] = "delay")) =>
                (prio[r] \in {ParsePriority, BodyPriority} /\ prio[r] < FetchPriority)
          /\ op[r] = "fetch" => prio[r] = FetchPriority
    /\ \A a, b \in Pending(queue) :
          (op[a] \in Methods /\ op[b] = "fetch") =>
                (prio[a] < prio[b] /\ (handoff # 0 => <<a, b>> \in outranked))
    /\ \A x \in outranked :
          (op[x[1]] \in Methods /\ op[x[2]] = "fetch" /\ x[2] \in Admitted) =>
                (x[1] \in Admitted /\ Pos(x[1]) < Pos(x[2]))
\* a fetch was queued before a body read, both waited together, and the body read
\* was admitted before the fetch
C26_Witness ==
    \E a, b \in Jobs :
        /\ op[a] \in Methods /\ op[b] = "fetch"
        /\ b < a
        /\ <<a, b>> \in outranked
        /\ a \in Admitted /\ b \in Admitted
        /\ Pos(a) < Pos(b)

\* ------------------------------------------------------------------ arrRem
\* The most indices given to one arrRem call.
MaxIdx == 3

\* An array of n elements in which every element is its own zero-based position, so
\* that what is left of it tells which positions were removed.
Ramp(n) == [i \in 1..n |-> i - 1]

\* The arrays and the lists of indices given to arrRem: positions 0..MaxLen, in any
\* order, repeated or not, one of them past the end of every array.
RemArrays == {Ramp(n) : n \in 0..MaxLen}
RemIndices == UNION {[1..n -> 0..MaxLen] : n \in 0..MaxIdx}

\* s with x put in its place, s being in ascending order
RECURSIVE Insert(_, _)
Insert(s, x) ==
    IF s = <<>> THEN <<x>>
    ELSE IF x < Head(s) THEN <<x>> \o s
    ELSE <<Head(s)>> \o Insert(Tail(s), x)

\* indices.toSorted((a, b) => a - b)
RECURSIVE ToSorted(_)
ToSorted(indices) ==
    IF indices = <<>> THEN <<>>
    ELSE Insert(ToSorted(SubSeq(indices, 1, Len(indices) - 1)), indices[Len(indices)])

\* arr.splice(start, 1): a negative start counts from the end, a start at or past the
\* length removes nothing
Splice(arr, start) ==
    LET len == Len(arr)
        from == IF start < 0 THEN (IF len + start < 0 THEN 0 ELSE len + start)
                ELSE IF start > len THEN len ELSE start
    IN IF from >= len THEN arr
       ELSE SubSeq(arr, 1, from) \o SubSeq(arr, from + 2, len)

\* for (let i = indices.length - 1; i >= 0; i--) arr.splice(indices[i], 1)
RECURSIVE SpliceEach(_, _)
SpliceEach(arr, indices) ==
    IF indices = <<>> THEN arr
    ELSE SpliceEach(Splice(arr, indices[Len(indices)]),
                    SubSeq(indices, 1, Len(indices) - 1))

\* arrRem(arr, indices): what arr holds afterwards
ArrRem(arr, indices) == SpliceEach(arr, ToSorted(indices))

\* What is remembered of an arrRem call: the array and the indices given, and the
\* array afterwards.
RemCalled(method, arr, indices, ret) ==
    [op |-> method, arr |-> arr, indices |-> indices, ret |-> ret]

\* arrRem(arr, indices)
ArrRemCall ==
    /\ call.op = "given"
    /\ call' = RemCalled("arrRem", call.arr, call.indices, ArrRem(call.arr, call.indices))
    /\ UNCHANGED <<queueVars, list, dlist, file, store>>

InitArrays ==
    /\ QueueIdle
    /\ list = <<>>
    /\ dlist = <<>>
    /\ file = <<>>
    /\ store = <<>>
    /\ \E arr \in RemArrays, indices \in RemIndices :
        call = RemCalled("given", arr, indices, <<>>)

NextArrays == ArrRemCall

SpecArrays == InitArrays /\ [][NextArrays]_vars

\* the elements of arr whose zero-based positions, from p on, are not in listed
RECURSIVE Without(_, _, _)
Without(arr, listed, p) ==
    IF p >= Len(arr) THEN <<>>
    ELSE (IF p \in listed THEN <<>> ELSE <<arr[p + 1]>>) \o Without(arr, listed, p + 1)

\* C21: after arrRem(arr, indices), arr holds exactly the elements whose original
\* positions are not listed in indices, in their original order, whatever the order
\* of the indices and however often an index is listed.
C21_RemovesListedPositions ==
    call.op = "arrRem" =>
        call.ret = Without(call.arr, {call.indices[i] : i \in DOMAIN call.indices}, 0)

\* ----------------------------------------------------------------- compare
\* The most elements of an array, or keys of a record, given to compare.
MaxWidth == 2

\* JavaScript values as <<kind, content>>: a number, an array of values, a plain
\* record as the list of its <<key, value>> entries in insertion order, undefined.
Num(n) == <<"number", <<n>>>>
Arr(items) == <<"array", items>>
Rec(entries) == <<"record", entries>>
Undef == <<"undefined", <<>>>>
KindOf(v) == v[1]

Keys == <<"x", "y">>
\* the lists of keys a record may have: any keys of Keys, in their order
KeyLists(w) ==
    {ks \in UNION {[1..n -> 1..Len(Keys)] : n \in 0..w} :
        \A i \in DOMAIN ks : i > 1 => ks[i - 1] < ks[i]}

\* the arrays and records of at most w values of vs
Containers(vs, w) ==
    {Arr(items) : items \in UNION {[1..n -> vs] : n \in 0..w}}
    \cup {Rec([i \in DOMAIN ks |-> <<Keys[ks[i]], fs[i]>>]) :
            <<ks, fs>> \in {p \in KeyLists(w) \X UNION {[1..n -> vs] : n \in 0..w} :
                             Len(p[1]) = Len(p[2])}}

\* numbers, arrays and records of numbers, and arrays and records of one of those
Primitives == {Num(n) : n \in Values}
Flat == Containers(Primitives, MaxWidth)
Nested == Containers(Primitives \cup Flat, 1)
Comparables == Primitives \cup Flat \cup Nested

\* toArray(value): an array is itself, a number, a plain record and undefined give []
ToArray(v) == IF KindOf(v) = "array" THEN v[2] ELSE <<>>

\* Object.entries(a) of an array or a record: the number of entries, the value of the
\* i-th one, and what b[key] is for its key (undefined when b has no such property;
\* the records here have no numeric key and no key "length").
EntryCount(a) == Len(a[2])
EntryValue(a, i) == IF KindOf(a) = "array" THEN a[2][i] ELSE a[2][i][2]
Property(a, i, b) ==
    IF KindOf(a) = "array"
    THEN IF KindOf(b) = "array" /\ i <= Len(b[2]) THEN b[2][i] ELSE Undef
    ELSE IF KindOf(b) = "record" /\ \E j \in DOMAIN b[2] : b[2][j][1] = a[2][i][1]
         THEN b[2][CHOOSE j \in DOMAIN b[2] : b[2][j][1] = a[2][i][1]][2]
         ELSE Undef

\* a === b for a that is not an object
StrictEqual(a, b) == KindOf(a) = KindOf(b) /\ a[2] = b[2]

\* compare(a, b): "true", "false", or "TypeError" when reading a property of undefined
\* throws. every() stops at the first entry that is not true.
RECURSIVE Compare(_, _), EveryItem(_, _, _), EveryEntry(_, _, _)
Compare(a, b) ==
    IF KindOf(a) \in {"array", "record"}
    THEN IF Len(ToArray(a)) # 0 /\ Len(ToArray(b)) # 0
         THEN IF Len(ToArray(a)) = Len(ToArray(b))
              THEN EveryItem(ToArray(a), ToArray(b), 1)
              ELSE "false"
         ELSE EveryEntry(a, b, 1)
    ELSE IF StrictEqual(a, b) THEN "true" ELSE "false"

\* arr.every((x, i) => compare(x, brr[i])), from the i-th element on
EveryItem(arr, brr, i) ==
    IF i > Len(arr) THEN "true"
    ELSE LET r == Compare(arr[i], brr[i])
         IN IF r = "true" THEN EveryItem(arr, brr, i + 1) ELSE r

\* Object.entries(a).every(x => compare(x[1], b[x[0]])), from the i-th entry on
EveryEntry(a, b, i) ==
    IF i > EntryCount(a) THEN "true"
    ELSE LET r == IF KindOf(b) = "undefined" THEN "TypeError"
                  ELSE Compare(EntryValue(a, i), Property(a, i, b))
         IN IF r = "true" THEN EveryEntry(a, b, i + 1) ELSE r

\* What is remembered of a compare call: the two values, compare(a, b) and
\* compare(b, a).
Compared(method, a, b, ret, rev) ==
    [op |-> method, a |-> a, b |-> b, ret |-> ret, rev |-> rev]

\* compare(a, b), and compare(b, a) after it
CompareCall ==
    /\ call.op = "given"
    /\ call' = Compared("compare", call.a, call.b, Compare(call.a, call.b),
                        Compare(call.b, call.a))
    /\ UNCHANGED <<queueVars, list, dlist, file, store>>

InitCompare ==
    /\ QueueIdle
    /\ list = <<>>
    /\ dlist = <<>>
    /\ file = <<>>
    /\ store = <<>>
    /\ \E a \in Comparables, b \in Comparables :
        call = Compared("given", a, b, "", "")

NextCompare == CompareCall

SpecCompare == InitCompare /\ [][NextCompare]_vars

\* a and b have the same shape and the same values
RECURSIVE DeepEqual(_, _)
DeepEqual(a, b) ==
    /\ KindOf(a) = KindOf(b)
    /\ Len(a[2]) = Len(b[2])
    /\ \A i \in DOMAIN a[2] :
        CASE KindOf(a) = "array" -> DeepEqual(a[2][i], b[2][i])
          [] KindOf(a) = "record" -> /\ a[2][i][1] = b[2][i][1]
                                      /\ DeepEqual(a[2][i][2], b[2][i][2])
          [] OTHER -> a[2][i] = b[2][i]

\* C22: over nested arrays and plain records of numbers, compare(a, b) returns true
\* exactly when a and b have the same shape and the same values, and false otherwise,
\* so that compare(a, b) = compare(b, a).
C22_DeepEquality ==
    call.op = "compare" =>
        /\ call.ret = (IF DeepEqual(call.a, call.b) THEN "true" ELSE "false")
        /\ call.ret = call.rev

\* ------------------------------------------------- Cache.write calls in flight
\* Two asynchronous write calls started on the same cache file. Each call suspends at
\* its awaits: the file creation of ensureFile, the file read of readFile, and the
\* file write of write; the steps of the two calls interleave in any order. call holds
\* for each writer where it is (at), its arguments and the object it parsed (cache).
Writers == {1, 2}
\* the names and the data JSON stores as they are
PlainNames == CacheNames \ {"__proto__"}
PlainData == {"Number(1)", "Number(2)"}

\* the cache files there may be before the calls: none, "{}", or one entry
SavedFiles ==
    {NoFile, [exists |-> TRUE, text |-> <<>>]}
    \cup {[exists |-> TRUE, text |-> Stringify(<<[name |-> n, value |-> d]>>)] :
            n \in PlainNames, d \in PlainData}

\* cache.write(name, data) called and not awaited: the writer is at its first await
Writing(name, data) == [at |-> "ensure", name |-> name, data |-> data, cache |-> <<>>]

\* await ensureFile(this.fileName, "{}") completes (lines 55-62)
WriteEnsures(w) ==
    /\ call[w].at = "ensure"
    /\ file' = EnsureFile(file)
    /\ call' = [call EXCEPT ![w].at = "read"]
    /\ UNCHANGED <<queueVars, list, dlist, store>>

\* await Deno.readTextFile completes and the text is parsed (lines 79-87); a file
\* removed since the ensure is read as "{}"
WriteReads(w) ==
    /\ call[w].at = "read"
    /\ call' = [call EXCEPT ![w].at = "write",
                            ![w].cache = IF file.exists THEN Parse(file.text) ELSE <<>>]
    /\ UNCHANGED <<queueVars, list, dlist, store, file>>

\* the entry is set or deleted in the parsed object and await Deno.writeTextFile
\* completes (lines 142-148)
WriteWrites(w) ==
    LET c == call[w]
        changed == IF c.data = Undefined THEN Delete(c.cache, c.name)
                   ELSE Assign(c.cache, c.name, c.data)
    IN /\ c.at = "write"
       /\ file' = [exists |-> TRUE, text |-> Stringify(changed)]
       /\ call' = [call EXCEPT ![w].at = "done"]
       /\ UNCHANGED <<queueVars, list, dlist, store>>

InitWrites ==
    /\ QueueIdle
    /\ list = <<>>
    /\ dlist = <<>>
    /\ store = <<>>
    /\ file \in SavedFiles
    /\ \E n1, n2 \in CacheNames, d1, d2 \in JsValues :
        /\ n1 # n2
        /\ call = [w \in Writers |-> IF w = 1 THEN Writing(n1, d1) ELSE Writing(n2, d2)]

NextWrites ==
    \/ \E w \in Writers : WriteEnsures(w)
    \/ \E w \in Writers : WriteReads(w)
    \/ \E w \in Writers : WriteWrites(w)

SpecWrites == InitWrites /\ [][NextWrites]_vars

\* C28: when two write calls for different names, with data JSON stores as it is,
\* were started together and both have completed, the file holds both entries.
C28_NoLostWrite ==
    (/\ \A w \in Writers : call[w].at = "done"
     /\ \A w \in Writers : call[w].name \in PlainNames /\ call[w].data \in PlainData)
    => \A w \in Writers : Lookup(Parse(file.text), call[w].name) = call[w].data

\* ------------------------------------------------- the cache file failing
\* A token that is no JSON value: a text holding it was cut short, as in {"a":{
Truncated == "{"
IsJson(text) == \A i \in DOMAIN text : text[i].token # Truncated

\* What the file system does during one call: whether creating, reading, writing and
\* removing the file fail (permissions, a full disk).
Faults == [create : BOOLEAN, read : BOOLEAN, write : BOOLEAN, remove : BOOLEAN]
\* the failures a call can meet: read and entries create and read the file, write and
\* ensure write it as well, clear only removes it
ReadFaults == {f \in Faults : ~f.write /\ ~f.remove}
WriteFaults == {f \in Faults : ~f.remove}
ClearFaults == {f \in Faults : ~f.create /\ ~f.read /\ ~f.write}
\* the data written to the failing file: a number, NaN, a function, undefined
FaultyData == {"Number(1)", "NaN", "function", Undefined}

\* the cache files there may be before a call, the ones cut short included
FaultyFiles ==
    SavedFiles
    \cup {[exists |-> TRUE, text |-> <<[name |-> "a", token |-> Truncated]>>]}

\* A try without its catch: the failure goes on to the caller and nothing is logged.
TryNothing(failed, message) == [thrown |-> failed, logs |-> {}]

\* try { ... } catch (e) { clog(message); clog(e) }: the failure is logged and goes
\* no further
TryCatch(failed, message) ==
    [thrown |-> FALSE, logs |-> IF failed THEN {message} ELSE {}]

\* Cache.ensureFile with Misc.ensureFile: an existing file is left alone (the
\* AlreadyExists error is dropped), a file that is not there is created holding "{}",
\* and a creation that fails is logged
TryEnsureFile(f, fault) ==
    LET try == TryCatch(~f.exists /\ fault.create, "ensureFile")
    IN [file |-> IF f.exists \/ fault.create THEN f ELSE EnsureFile(f),
        thrown |-> try.thrown, logs |-> try.logs]

\* Cache.readFile: raw stays "{}" when the read fails, {} is returned when the parse
\* fails
TryReadFile(f, fault) ==
    LET ensured == TryEnsureFile(f, fault)
        unread == fault.read \/ ~ensured.file.exists
        reading == TryCatch(unread, "reading")
        raw == IF unread THEN <<>> ELSE ensured.file.text
        parsing == TryCatch(~IsJson(raw), "parsing")
    IN [file |-> ensured.file,
        cache |-> IF IsJson(raw) THEN Parse(raw) ELSE <<>>,
        thrown |-> ensured.thrown \/ reading.thrown \/ parsing.thrown,
        logs |-> ensured.logs \cup reading.logs \cup parsing.logs]

\* Cache.read
TryRead(f, fault, entry) ==
    LET r == TryReadFile(f, fault)
    IN [file |-> r.file, thrown |-> r.thrown, logs |-> r.logs,
        ret |-> IF r.thrown THEN Undefined ELSE Lookup(r.cache, entry)]

\* Cache.entriesAsync, Cache.entries
TryEntries(f, fault) ==
    LET r == TryReadFile(f, fault)
    IN [file |-> r.file, thrown |-> r.thrown, logs |-> r.logs,
        ret |-> IF r.thrown THEN {} ELSE Own(r.cache)]

\* Cache.write: a write that fails leaves the file as it is
TryWrite(f, fault, name, data) ==
    LET r == TryReadFile(f, fault)
        changed == IF data = Undefined THEN Delete(r.cache, name)
                   ELSE Assign(r.cache, name, data)
        writing == TryCatch(~r.thrown /\ fault.write, "writing")
    IN [file |-> IF r.thrown \/ fault.write THEN r.file
                 ELSE [exists |-> TRUE, text |-> Stringify(changed)],
        thrown |-> r.thrown \/ writing.thrown,
        logs |-> r.logs \cup writing.logs,
        ret |-> Undefined]

\* Cache.clear: removing a file that is not there fails as well
TryClear(f, fault) ==
    LET unremoved == fault.remove \/ ~f.exists
        clearing == TryCatch(unremoved, "clearing")
    IN [file |-> IF unremoved THEN f ELSE NoFile,
        thrown |-> clearing.thrown, logs |-> clearing.logs, ret |-> Undefined]

\* Cache.ensure: entriesAsync, then write if the entry is not there, then read; a
\* failure that is thrown ends the call where it happens
TryEnsure(f, fault, entry, data) ==
    LET names == TryEntries(f, fault)
        needed == ~names.thrown /\ Needs(names.ret, entry)
        written == IF needed THEN TryWrite(names.file, fault, entry, data)
                   ELSE [file |-> names.file, thrown |-> FALSE, logs |-> {},
                         ret |-> Undefined]
        reread == IF names.thrown \/ written.thrown
                  THEN [file |-> written.file, thrown |-> FALSE, logs |-> {},
                        ret |-> Undefined]
                  ELSE TryRead(written.file, fault, entry)
    IN [file |-> reread.file,
        thrown |-> names.thrown \/ written.thrown \/ reread.thrown,
        logs |-> names.logs \cup written.logs \cup reread.logs,
        ret |-> reread.ret]

\* What is remembered of the last call on the failing file: the method, its
\* arguments, what the file system did, the file before, and how the call ended.
Tried(method, name, data, fault, before, r) ==
    [op |-> method, name |-> name, data |-> data, fault |-> fault, before |-> before,
     ret |-> r.ret, thrown |-> r.thrown, logs |-> r.logs]

NoFault == [create |-> FALSE, read |-> FALSE, write |-> FALSE, remove |-> FALSE]

\* await cache.read(entry)
TryReadCall(entry, fault) ==
    LET r == TryRead(file, fault, entry)
    IN /\ file' = r.file
       /\ call' = Tried("read", entry, Undefined, fault, file, r)
       /\ UNCHANGED <<queueVars, list, dlist, store>>

\* await cache.entriesAsync()
TryEntriesCall(fault) ==
    LET r == TryEntries(file, fault)
    IN /\ file' = r.file
       /\ call' = Tried("entries", "", Undefined, fault, file, r)
       /\ UNCHANGED <<queueVars, list, dlist, store>>

\* await cache.write(name, data)
TryWriteCall(name, data, fault) ==
    LET r == TryWrite(file, fault, name, data)
    IN /\ file' = r.file
       /\ call' = Tried("write", name, data, fault, file, r)
       /\ UNCHANGED <<queueVars, list, dlist, store>>

\* await cache.clear()
TryClearCall(fault) ==
    LET r == TryClear(file, fault)
    IN /\ file' = r.file
       /\ call' = Tried("clear", "", Undefined, fault, file, r)
       /\ UNCHANGED <<queueVars, list, dlist, store>>

\* await cache.ensure(entry, () => data)
TryEnsureCall(entry, data, fault) ==
    LET r == TryEnsure(file, fault, entry, data)
    IN /\ file' = r.file
       /\ call' = Tried("ensure", entry, data, fault, file, r)
       /\ UNCHANGED <<queueVars, list, dlist, store>>

\* new Cache(fileName) on whatever file is there
InitFaults ==
    /\ QueueIdle
    /\ list = <<>>
    /\ dlist = <<>>
    /\ store = <<>>
    /\ file \in FaultyFiles
    /\ call = Tried("new", "", Undefined, NoFault, file,
                    [ret |-> Undefined, thrown |-> FALSE, logs |-> {}])

NextFaults ==
    \/ \E n \in CacheNames, f \in ReadFaults : TryReadCall(n, f)
    \/ \E f \in ReadFaults : TryEntriesCall(f)
    \/ \E n \in CacheNames, d \in FaultyData, f \in WriteFaults : TryWriteCall(n, d, f)
    \/ \E f \in ClearFaults : TryClearCall(f)
    \/ \E n \in CacheNames, d \in FaultyData, f \in WriteFaults : TryEnsureCall(n, d, f)

SpecFaults == InitFaults /\ [][NextFaults]_vars

\* The file could not be read during the last call: the read failed, or the file was
\* not there and could not be created.
Unreadable == call.fault.read \/ (~call.before.exists /\ call.fault.create)
\* The file was read and its text is not JSON.
Unparseable == ~Unreadable /\ call.before.exists /\ ~IsJson(call.before.text)

\* No call throws, and every failure of the file system or of the parse during a
\* read, entries, write or clear call is in the log.
FailuresLogged ==
    /\ ~call.thrown
    /\ call.op \in {"read", "entries", "write"} =>
        /\ Unreadable => "reading" \in call.logs
        /\ Unparseable => "parsing" \in call.logs
        /\ (~call.before.exists /\ call.fault.create) => "ensureFile" \in call.logs
    /\ (call.op = "write" /\ call.fault.write) => "writing" \in call.logs
    /\ (call.op = "clear" /\ (call.fault.remove \/ ~call.before.exists)) =>
        "clearing" \in call.logs
    /\ (call.op = "ensure" /\ (Unreadable \/ Unparseable)) => call.logs # {}

====
